---- MODULE Spec2Model ----
(***************************************************************************)
(* A model of libs/socketio/async_admin.py: InstrumentedAsyncServer, the   *)
(* instrumentation of an asyncio Socket.IO server for the Admin UI.        *)
(*                                                                         *)
(* Scheduling is asyncio's: one event loop, coroutines run without         *)
(* interruption between two awaits.  Every action below is the code a      *)
(* coroutine runs from one suspension point to the next.  An               *)
(* "await self.sio.emit(...)" hands the message to the server at the call  *)
(* (that is where the message is published) and then suspends the caller   *)
(* until the emit returns.                                                 *)
(***************************************************************************)
EXTENDS Integers, Sequences, FiniteSets, TLC

\* ------------------------------------------------------------------ bounds
MaxAdmins == 1      \* admin connection attempts
MaxEio == 1         \* transport (engine.io) connections
MaxSids == 1        \* regular client connections
MaxEntries == 2     \* room_joined / room_left entries queued in a run
MaxPackets == 2     \* intercepted transport packets in a run
MaxLen == 1         \* largest payload length of an intercepted packet
MaxShutdowns == 1   \* invocations of shutdown()
MaxCommands == 1    \* command packets sent by admin connections
MaxEmits == 1       \* emits made through the emit interceptor
MaxDispatches == 3  \* events dispatched through the lifecycle interceptor
MaxPings == 1       \* keep-alive pings sent

\* ------------------------------------------------------------ value spaces
None == "None"
NoTask == 0

EioSids == 1..MaxEio
\* Connection ids are opaque strings, never reused.
SidNames == <<"s1", "s2", "s3", "s4", "s5">>
AdminNames == <<"a1", "a2", "a3", "a4", "a5">>
Sids == {SidNames[i] : i \in 1..MaxSids}
AdminSids == {AdminNames[i] : i \in 1..MaxAdmins}
AllSids == Sids \cup AdminSids

\* Every start_background_task(self._emit_server_stats) makes a new task, and
\* the create_event() before it a new event: ids are handed out in order.
TaskIds == 1..(MaxAdmins + 1)

admin_namespace == "/admin"
Namespaces == {"/", "/chat"}
AllNamespaces == Namespaces \cup {admin_namespace}
NamedRooms == {"general"}
RoomKeys == {None} \cup NamedRooms
\* A room argument of a membership change: None (the namespace itself) or a
\* named room.
RoomArgs == {None} \cup NamedRooms

Lens == 0..MaxLen

\* Python truthiness of a room identifier ("if room:").
RoomTruthy(room) == room \notin {None, ""}

\* --------------------------------------------------------- Python values
\* A dict is the set of its items; client_auth may also be None.
PyNone == [t |-> "none", items |-> {}]
PyDict(items) == [t |-> "dict", items |-> items]
GoodCreds == PyDict({<<"username", "admin">>, <<"password", "secret">>})
BadCreds == PyDict({<<"username", "admin">>, <<"password", "guess">>})
OtherCreds == PyDict({<<"username", "root">>, <<"password", "toor">>})
EmptyDict == PyDict({})
ClientAuths == {PyNone, EmptyDict, GoodCreds, BadCreds, OtherCreds}

\* The auth argument of the constructor: a dict (kind "dict", val the dict),
\* a list of dicts (kind "list", val a sequence) or a callable (kind "func",
\* val the set of credentials it returns True for).
AuthDict(d) == [kind |-> "dict", val |-> d]
AuthList(l) == [kind |-> "list", val |-> l]
AuthFunc(s) == [kind |-> "func", val |-> s]
AuthValues ==
    {AuthDict(GoodCreds), AuthDict(EmptyDict),
     AuthList(<<GoodCreds, OtherCreds>>), AuthList(<<>>),
     AuthFunc({GoodCreds})}

VARIABLES
    \* configuration, fixed by __init__
    auth, mode, read_only,
    \* transport and namespace registries of the underlying server
    eio, sockets, rooms, ns_order,
    \* the stats task and its stop event
    stop_stats_event, events_set, stats_task, taskPc,
    \* a caller of shutdown()
    shutdownPc, shutdownTask, nShutdowns,
    \* EventBuffer and discrete event queue
    event_buffer, admin_queue,
    \* the config tasks of the admin connections
    configPc, configLog,
    \* the command packet received on the admin namespace and not yet
    \* dispatched, the last broadcast the server made on a regular namespace
    adminInbox, nCommands, lastEmit,
    \* history: what was pushed, flushed, queued and published so far
    pushedTotal, flushedTotal, nPackets, nEntries, roomLog, unflushed,
    returnedFor, sleepingAtStop,
    \* manager._timestamps, sio.handlers, the namespaces list of every stats
    \* task
    _timestamps, handlers, task_namespaces,
    \* the event dispatch, the broadcast and the keep-alive ping in progress
    dispatch, emitCall, ping,
    \* history: the notifications of the interceptors, the connections that
    \* got socket_connected after socket_disconnected, the notifications
    \* caused by an emit on the admin namespace, the last room hook call
    notified, lateConnected, chained, roomCall,
    nDispatches, nEmits, nPings

configVars == <<auth, mode, read_only>>
serverVars == <<eio, sockets, rooms, ns_order>>
statsVars == <<stop_stats_event, events_set, stats_task, taskPc>>
shutdownVars == <<shutdownPc, shutdownTask, nShutdowns>>
bufferVars == <<event_buffer, pushedTotal, flushedTotal, nPackets>>
queueVars == <<admin_queue, nEntries, roomLog, unflushed>>
adminVars == <<configPc, configLog>>
cmdVars == <<adminInbox, nCommands, lastEmit>>
histVars == <<returnedFor, sleepingAtStop>>
hookVars == <<_timestamps, handlers, dispatch, emitCall, ping, notified,
              lateConnected, chained, roomCall, nDispatches, nEmits, nPings>>
statsMsgVars == <<task_namespaces>>

vars == <<configVars, serverVars, statsVars, shutdownVars, bufferVars,
          queueVars, adminVars, cmdVars, histVars, hookVars, statsMsgVars>>

\* ------------------------------------------------------------- sequences
SeqRange(s) == {s[i] : i \in 1..Len(s)}
SeqWith(s, x) == IF x \in SeqRange(s) THEN s ELSE Append(s, x)
SeqWithout(s, x) == SelectSeq(s, LAMBDA y : y # x)

\* ------------------------------------------------------------ EventBuffer
\* .admin.EventBuffer: named counters accumulated between two flushes.
Counters ==
    {"rawConnection", "rawDisconnection", "packetsIn", "packetsOut",
     "bytesIn", "bytesOut"}
EmptyBuffer == [c \in Counters |-> 0]
\* push(type, count=1)
push(buf, type, count) == [buf EXCEPT ![type] = @ + count]
\* get_and_clear(): the value returned, and the buffer it leaves behind.
get_and_clear_ret(buf) == buf
get_and_clear_buf(buf) == EmptyBuffer

\* ----------------------------------------------- the underlying manager
\* The registries of the server the instrumentation wraps, at their
\* boundary: rooms[nsp][room] lists the connections of a room in the order
\* they entered (room None is the namespace itself), ns_order the namespaces
\* that have connections, in the order they got their first one.  A manager
\* state m carries them with the discrete event queue the hooks append to:
\*   m.rooms, m.order, m.queue, m.n (entries queued so far), m.unflushed.
NsOrderAfter(order, rms) ==
    LET kept == SelectSeq(order, LAMBDA n : rms[n][None] # <<>>)
        new == {n \in AllNamespaces : rms[n][None] # <<>> /\ n \notin SeqRange(kept)}
    IN  IF new = {} THEN kept ELSE Append(kept, CHOOSE n \in new : TRUE)

\* manager.get_participants(namespace, room): room None is the namespace, a
\* sid names that connection's private room.
get_participants(rms, nsp, room) ==
    IF room \in RoomKeys THEN rms[nsp][room]
    ELSE SelectSeq(rms[nsp][None], LAMBDA s : s = room)

\* manager.get_namespaces()
get_namespaces(order) == order

\* The original manager.basic_enter_room / basic_leave_room.
orig_basic_enter_room(m, sid, nsp, room) ==
    LET rms == [m.rooms EXCEPT ![nsp][room] = SeqWith(@, sid)]
    IN  [m EXCEPT !.rooms = rms, !.order = NsOrderAfter(m.order, rms)]

orig_basic_leave_room(m, sid, nsp, room) ==
    LET rms == [m.rooms EXCEPT ![nsp][room] = SeqWithout(@, sid)]
    IN  [m EXCEPT !.rooms = rms, !.order = NsOrderAfter(m.order, rms)]

\* The server removing a connection from a namespace and all its rooms.
manager_disconnect(m, sid, nsp) ==
    LET rms == [m.rooms EXCEPT ![nsp] = [r \in RoomKeys |-> SeqWithout(@[r], sid)]]
    IN  [m EXCEPT !.rooms = rms, !.order = NsOrderAfter(m.order, rms)]

\* ------------------------------------------- the discrete event queue
\* An entry of admin_queue: (event, (namespace, room, sid, timestamp)); the
\* timestamp is the logical time of the append.
QueueEntry(event, nsp, room, sid, ts) ==
    [event |-> event, namespace |-> nsp, room |-> room, sid |-> sid, ts |-> ts]

\* (History: m.unflushed holds the entries queued since the last server_stats
\* emit, those queued while such an emit is in flight not counted.)
admin_queue_append(m, event, nsp, room, sid) ==
    [m EXCEPT !.queue = Append(@, QueueEntry(event, nsp, room, sid, m.n + 1)),
              !.n = @ + 1,
              !.unflushed = IF m.flushing THEN @ ELSE @ \cup {m.n + 1}]

\* InstrumentedAsyncServer._basic_enter_room
_basic_enter_room(m, sid, nsp, room) ==
    LET ret == orig_basic_enter_room(m, sid, nsp, room)
    IN  IF RoomTruthy(room)
        THEN admin_queue_append(ret, "room_joined", nsp, room, sid)
        ELSE ret

\* InstrumentedAsyncServer._basic_leave_room
_basic_leave_room(m, sid, nsp, room) ==
    LET queued == IF RoomTruthy(room)
                  THEN admin_queue_append(m, "room_left", nsp, room, sid)
                  ELSE m
    IN  orig_basic_leave_room(queued, sid, nsp, room)

\* instrument(): in development mode the manager's basic_enter_room and
\* basic_leave_room are replaced by the hooks above.
manager_basic_enter_room(md, m, sid, nsp, room) ==
    IF md = "development" THEN _basic_enter_room(m, sid, nsp, room)
    ELSE orig_basic_enter_room(m, sid, nsp, room)

manager_basic_leave_room(md, m, sid, nsp, room) ==
    IF md = "development" THEN _basic_leave_room(m, sid, nsp, room)
    ELSE orig_basic_leave_room(m, sid, nsp, room)

\* The manager state of the current state, and its assignment.
Mgr ==
    [rooms |-> rooms, order |-> ns_order, queue |-> admin_queue,
     n |-> nEntries, unflushed |-> unflushed,
     flushing |-> \E t \in DOMAIN taskPc : taskPc[t] = "stats"]

SetMgr(m) ==
    /\ m.n <= MaxEntries
    /\ rooms' = m.rooms
    /\ ns_order' = m.order
    /\ admin_queue' = m.queue
    /\ nEntries' = m.n
    /\ unflushed' = m.unflushed

\* ------------------------------------------------------------------- init
\* A connection: its state, namespace, transport and the auth data of its
\* connect packet.
Socket(state, nsp, e, client_auth) ==
    [state |-> state, nsp |-> nsp, eio |-> e, auth |-> client_auth]
NoSocket == Socket("new", None, 0, PyNone)
NoCmd == [sid |-> None, event |-> None, namespace |-> None, arg |-> None, filter |-> None]
NoEmit == [event |-> None, namespace |-> None, to |-> None, recipients |-> {}]
\* No event dispatch, no broadcast, no ping in progress; no room hook called.
NoDispatch ==
    [pc |-> "idle", event |-> None, namespace |-> None, sid |-> None,
     published |-> FALSE, calls |-> 0, forwarded |-> <<>>, orig |-> None,
     result |-> None]
NoEmitCall ==
    [pc |-> "idle", namespace |-> None, room |-> None,
     skip_sid |-> [list |-> FALSE, sid |-> None, sids |-> <<>>],
     delivered |-> {}, pending |-> <<>>, sent |-> <<>>]
NoPing == [pc |-> "idle", rest |-> <<>>]
NoRoomCall == [op |-> None, raised |-> FALSE, queued |-> FALSE]

\* The state after __init__ (and the instrument() it ends with), for a
\* constructor called with auth, mode and read_only drawn from the given sets.
InitConfig(authSet, modeSet, roSet) ==
    /\ auth \in authSet
    /\ mode \in modeSet
    /\ read_only \in roSet

\* The server has no connection yet.
InitServer ==
    /\ eio = [e \in EioSids |-> "new"]
    /\ sockets = [s \in AllSids |-> NoSocket]
    /\ rooms = [n \in AllNamespaces |-> [r \in RoomKeys |-> <<>>]]
    /\ ns_order = <<>>

InitInstrumentation ==
    /\ stop_stats_event = NoTask
    /\ events_set = {}
    /\ stats_task = NoTask
    /\ taskPc = [t \in TaskIds |-> "none"]
    /\ shutdownPc = "idle"
    /\ shutdownTask = NoTask
    /\ nShutdowns = 0
    /\ event_buffer = EmptyBuffer
    /\ admin_queue = <<>>
    /\ configPc = [a \in AdminSids |-> "none"]
    /\ configLog = [a \in AdminSids |-> <<>>]
    /\ adminInbox = NoCmd
    /\ nCommands = 0
    /\ lastEmit = NoEmit
    /\ pushedTotal = EmptyBuffer
    /\ flushedTotal = EmptyBuffer
    /\ nPackets = 0
    /\ nEntries = 0
    /\ roomLog = <<>>
    /\ unflushed = {}
    /\ returnedFor = {}
    /\ sleepingAtStop = {}
    /\ _timestamps = {}
    /\ handlers = {admin_namespace, "/"}
    /\ task_namespaces = [t \in TaskIds |-> <<>>]
    /\ dispatch = NoDispatch
    /\ emitCall = NoEmitCall
    /\ ping = [e \in EioSids |-> NoPing]
    /\ notified = {}
    /\ lateConnected = {}
    /\ chained = 0
    /\ roomCall = NoRoomCall
    /\ nDispatches = 0
    /\ nEmits = 0
    /\ nPings = 0

InitWith(authSet, modeSet, roSet) ==
    /\ InitConfig(authSet, modeSet, roSet)
    /\ InitServer
    /\ InitInstrumentation

\* ------------------------------------------------ starting a stats task
\* self.stop_stats_event = self.sio.eio.create_event()
\* self.stats_task = self.sio.start_background_task(self._emit_server_stats)
NextTaskId == Cardinality({t \in TaskIds : taskPc[t] # "none"}) + 1

start_stats_task ==
    /\ NextTaskId \in TaskIds
    /\ stop_stats_event' = NextTaskId
    /\ stats_task' = NextTaskId
    /\ taskPc' = [taskPc EXCEPT ![NextTaskId] = "start"]
    /\ UNCHANGED events_set

\* One push of the transport interceptors, with the history of amounts.
buffer_push(type, count) ==
    /\ event_buffer' = push(event_buffer, type, count)
    /\ pushedTotal' = [pushedTotal EXCEPT ![type] = @ + count]

\* A packet counter and a byte counter pushed by one interceptor call.
packet_push(ptype, btype, len) ==
    /\ nPackets < MaxPackets
    /\ nPackets' = nPackets + 1
    /\ event_buffer' = push(push(event_buffer, ptype, 1), btype, len)
    /\ pushedTotal' = [pushedTotal EXCEPT ![ptype] = @ + 1, ![btype] = @ + len]
    /\ UNCHANGED flushedTotal

\* InstrumentedAsyncServer._handle_eio_connect
_handle_eio_connect(e) ==
    /\ eio[e] = "new"
    /\ IF stop_stats_event = NoTask
       THEN start_stats_task
       ELSE UNCHANGED statsVars
    /\ buffer_push("rawConnection", 1)
    /\ eio' = [eio EXCEPT ![e] = "open"]
    /\ UNCHANGED <<configVars, hookVars, statsMsgVars,
                   sockets, rooms, ns_order, shutdownVars,
                   flushedTotal, nPackets, queueVars, adminVars, cmdVars,
                   histVars>>

\* InstrumentedAsyncServer._handle_eio_disconnect; the server closes a
\* transport after the connections it carried are gone.
_handle_eio_disconnect(e) ==
    /\ eio[e] = "open"
    /\ \A s \in AllSids : sockets[s].state = "connected" => sockets[s].eio # e
    /\ buffer_push("rawDisconnection", 1)
    /\ eio' = [eio EXCEPT ![e] = "closed"]
    /\ UNCHANGED <<configVars, hookVars, statsMsgVars,
                   sockets, rooms, ns_order, statsVars,
                   shutdownVars, flushedTotal, nPackets, queueVars, adminVars,
                   cmdVars, histVars>>

othersOfPacket ==
    <<configVars, hookVars, statsMsgVars, serverVars, statsVars,
      shutdownVars, queueVars, adminVars,
      cmdVars, histVars>>

\* InstrumentedAsyncServer._eio_http_response: len(ret['response']) = len
_eio_http_response(len) ==
    /\ packet_push("packetsOut", "bytesOut", len)
    /\ UNCHANGED othersOfPacket

\* InstrumentedAsyncServer._eio_handle_post_request: CONTENT_LENGTH = len
_eio_handle_post_request(e, len) ==
    /\ eio[e] = "open"
    /\ packet_push("packetsIn", "bytesIn", len)
    /\ UNCHANGED othersOfPacket

\* _eio_websocket_handler._send: len(data) = len
_send(e, len) ==
    /\ eio[e] = "open"
    /\ packet_push("packetsOut", "bytesOut", len)
    /\ UNCHANGED othersOfPacket

\* _eio_websocket_handler._wait: len(ret or '') = len
_wait(e, len) ==
    /\ eio[e] = "open"
    /\ packet_push("packetsIn", "bytesIn", len)
    /\ UNCHANGED othersOfPacket

\* ------------------------------------------------------ regular clients
\* The server connecting a client to a regular namespace.
ClientConnect(s, e, nsp) ==
    /\ sockets[s].state = "new"
    /\ eio[e] = "open"
    /\ sockets' = [sockets EXCEPT ![s] = Socket("connected", nsp, e, PyNone)]
    /\ SetMgr(orig_basic_enter_room(Mgr, s, nsp, None))
    /\ UNCHANGED <<configVars, hookVars, statsMsgVars,
                   eio, statsVars, shutdownVars, bufferVars,
                   roomLog, adminVars, cmdVars, histVars>>

\* sio.enter_room(sid, room, namespace) / sio.leave_room(sid, room, namespace)
sio_enter_room(md, m, sid, room, nsp) == manager_basic_enter_room(md, m, sid, nsp, room)
sio_leave_room(md, m, sid, room, nsp) == manager_basic_leave_room(md, m, sid, nsp, room)

\* The application moving a connected client into or out of a room.
EnterRoom(s, room) ==
    /\ sockets[s].state = "connected"
    /\ SetMgr(sio_enter_room(mode, Mgr, s, room, sockets[s].nsp))
    /\ UNCHANGED <<configVars, hookVars, statsMsgVars,
                   eio, sockets, statsVars, shutdownVars,
                   bufferVars, roomLog, adminVars, cmdVars, histVars>>

LeaveRoom(s, room) ==
    /\ sockets[s].state = "connected"
    /\ SetMgr(sio_leave_room(mode, Mgr, s, room, sockets[s].nsp))
    /\ UNCHANGED <<configVars, hookVars, statsMsgVars,
                   eio, sockets, statsVars, shutdownVars,
                   bufferVars, roomLog, adminVars, cmdVars, histVars>>

\* ------------------------------------------------------- admin_connect
\* Python truthiness of self.auth ("if self.auth:").
AuthTruthy(au) ==
    CASE au.kind = "dict" -> au.val.items # {}
      [] au.kind = "list" -> Len(au.val) # 0
      [] OTHER -> TRUE

\* admin_connect, the authentication: the value of "authenticated" when the
\* handler reaches "async def config".
authenticated(au, client_auth) ==
    IF ~AuthTruthy(au) THEN TRUE
    ELSE CASE au.kind = "dict" -> client_auth = au.val
           [] au.kind = "list" -> client_auth \in SeqRange(au.val)
           [] OTHER -> client_auth \in au.val

\* InstrumentedAsyncServer.admin_connect, dispatched by the server for a
\* connection a to the admin namespace over transport e.  A refusal
\* (ConnectionRefusedError) makes the server drop the connection.
admin_connect(a, e, client_auth) ==
    /\ sockets[a].state = "new"
    /\ eio[e] = "open"
    /\ IF authenticated(auth, client_auth)
       THEN /\ sockets' = [sockets EXCEPT ![a] =
                    Socket("connected", admin_namespace, e, client_auth)]
            /\ SetMgr(orig_basic_enter_room(Mgr, a, admin_namespace, None))
            /\ configPc' = [configPc EXCEPT ![a] = "sleep"]
            /\ start_stats_task
       ELSE /\ sockets' = [sockets EXCEPT ![a] =
                    Socket("refused", admin_namespace, e, client_auth)]
            /\ UNCHANGED <<rooms, ns_order, queueVars, configPc, statsVars>>
    /\ UNCHANGED <<configVars, hookVars, statsMsgVars,
                   eio, shutdownVars, bufferVars, roomLog,
                   configLog, cmdVars, histVars>>

\* The feature list with the control features advertised whatever read_only.
config_features_always_control(ro, md) ==
    <<"AGGREGATED_EVENTS", "EMIT", "JOIN", "LEAVE", "DISCONNECT", "MJOIN",
      "MLEAVE", "MDISCONNECT">>
    \o (IF md = "development" THEN <<"ALL_EVENTS">> ELSE <<>>)

\* config(sid), the supported features
config_features(ro, md) ==
    <<"AGGREGATED_EVENTS">>
    \o (IF ~ro THEN <<"EMIT", "JOIN", "LEAVE", "DISCONNECT", "MJOIN",
                      "MLEAVE", "MDISCONNECT">> ELSE <<>>)
    \o (IF md = "development" THEN <<"ALL_EVENTS">> ELSE <<>>)

\* A message published on the admin namespace by a config task.
AdminMsg(event, to, data) == [event |-> event, to |-> to, data |-> data]

\* config(sid) after its sleep: emit('config', ..., to=sid)
config_emit_config(a) ==
    /\ configPc[a] = "sleep"
    /\ configLog' = [configLog EXCEPT ![a] =
            Append(@, AdminMsg("config", a, config_features(read_only, mode)))]
    /\ configPc' = [configPc EXCEPT ![a] = "config"]
    /\ UNCHANGED <<configVars, hookVars, statsMsgVars,
                   serverVars, statsVars, shutdownVars,
                   bufferVars, queueVars, cmdVars, histVars>>

\* serialize_socket(sid, nsp, eio_sid), the fields that identify the socket
serialize_socket(sid, nsp) == [id |-> sid, nsp |-> nsp]

\* The two nested loops of config(): the sockets of every namespace, in the
\* order the loops visit them.
RECURSIVE all_sockets_of(_, _)
all_sockets_of(order, rms) ==
    IF order = <<>> THEN <<>>
    ELSE LET nsp == Head(order)
             parts == get_participants(rms, nsp, None)
         IN  [i \in 1..Len(parts) |-> serialize_socket(parts[i], nsp)]
             \o all_sockets_of(Tail(order), rms)

\* The value of the variable sid after the loops: "for sid, eio_sid in ..."
\* rebinds the parameter of config(sid) to every socket visited.
sid_after_loops(a, visited) ==
    IF visited = <<>> THEN a ELSE visited[Len(visited)].id

\* config(sid) once emit('config') has returned
config_emit_all_sockets(a) ==
    /\ configPc[a] = "config"
    /\ IF mode = "development"
       THEN LET all_sockets == all_sockets_of(get_namespaces(ns_order), rooms)
            IN  /\ configLog' = [configLog EXCEPT ![a] =
                        Append(@, AdminMsg("all_sockets",
                                           sid_after_loops(a, all_sockets),
                                           all_sockets))]
                /\ configPc' = [configPc EXCEPT ![a] = "all_sockets"]
       ELSE /\ configPc' = [configPc EXCEPT ![a] = "done"]
            /\ UNCHANGED configLog
    /\ UNCHANGED <<configVars, hookVars, statsMsgVars,
                   serverVars, statsVars, shutdownVars,
                   bufferVars, queueVars, cmdVars, histVars>>

\* config(sid) once emit('all_sockets') has returned
config_return(a) ==
    /\ configPc[a] = "all_sockets"
    /\ configPc' = [configPc EXCEPT ![a] = "done"]
    /\ UNCHANGED <<configVars, hookVars, statsMsgVars,
                   serverVars, statsVars, shutdownVars,
                   bufferVars, queueVars, configLog, cmdVars, histVars>>

\* ---------------------------------------------------- _emit_server_stats
\* sorted(): the namespaces of a set in the order of their names.
NamespaceOrder == <<"/", "/admin", "/chat">>
SortedSeq(S) == SelectSeq(NamespaceOrder, LAMBDA n : n \in S)

\* namespaces = list(self.sio.handlers.keys()); namespaces.sort()
sorted_handler_namespaces == SortedSeq(handlers)

\* The 'namespaces' field of the server_stats message task t emits when its
\* sleep ends: name and socketsCount for every nsp of the task's list.
server_stats_namespaces(t) ==
    [i \in 1..Len(task_namespaces[t]) |->
        [name |-> task_namespaces[t][i],
         socketsCount |-> Len(rooms[task_namespaces[t][i]][None])]]

\* "while not self.stop_stats_event.is_set()": the event read is the one
\* self.stop_stats_event names when the task evaluates the condition.
stop_is_set == stop_stats_event \in events_set

loop_or_exit(t) ==
    taskPc' = [taskPc EXCEPT ![t] = IF stop_is_set THEN "done" ELSE "sleep"]

\* The task starts: it reads the namespaces and enters the loop.
stats_task_start(t) ==
    /\ taskPc[t] = "start"
    /\ loop_or_exit(t)
    /\ task_namespaces' = [task_namespaces EXCEPT ![t] = sorted_handler_namespaces]
    /\ UNCHANGED <<configVars, hookVars,
                   serverVars, stop_stats_event, events_set,
                   stats_task, shutdownVars, bufferVars, queueVars, adminVars,
                   cmdVars, histVars>>

\* The publication with the buffer read but not cleared.
stats_task_publish_no_clear(t) ==
    /\ taskPc[t] = "sleep"
    /\ flushedTotal' = [c \in Counters |-> flushedTotal[c] + event_buffer[c]]
    /\ unflushed' = {}
    /\ taskPc' = [taskPc EXCEPT ![t] = "stats"]
    /\ sleepingAtStop' = sleepingAtStop \ {t}
    /\ UNCHANGED <<configVars, hookVars, statsMsgVars,
                   serverVars, stop_stats_event, events_set,
                   stats_task, shutdownVars, event_buffer, pushedTotal,
                   nPackets, admin_queue, nEntries, roomLog, adminVars,
                   cmdVars, returnedFor>>

\* (pc "stats": suspended in the emit of server_stats; pc "drain": suspended
\* in the emit of a queue entry.)
\* sleep(server_stats_interval) returns: emit('server_stats', ...), whose
\* aggregatedEvents is event_buffer.get_and_clear().
stats_task_publish(t) ==
    /\ taskPc[t] = "sleep"
    /\ flushedTotal' = [c \in Counters |->
            flushedTotal[c] + get_and_clear_ret(event_buffer)[c]]
    /\ event_buffer' = get_and_clear_buf(event_buffer)
    /\ unflushed' = {}
    /\ taskPc' = [taskPc EXCEPT ![t] = "stats"]
    /\ sleepingAtStop' = sleepingAtStop \ {t}
    /\ UNCHANGED <<configVars, hookVars, statsMsgVars,
                   serverVars, stop_stats_event, events_set,
                   stats_task, shutdownVars, pushedTotal, nPackets,
                   admin_queue, nEntries, roomLog, adminVars, cmdVars,
                   returnedFor>>

\* The drain loop with "self.admin_queue.pop()" for "pop(0)".
stats_task_drain_pop_last(t) ==
    /\ taskPc[t] \in {"stats", "drain"}
    /\ IF admin_queue # <<>>
       THEN /\ roomLog' = Append(roomLog, admin_queue[Len(admin_queue)].ts)
            /\ admin_queue' = SubSeq(admin_queue, 1, Len(admin_queue) - 1)
            /\ taskPc' = [taskPc EXCEPT ![t] = "drain"]
       ELSE /\ taskPc' = [taskPc EXCEPT ![t] =
                    IF stop_stats_event \in events_set THEN "done" ELSE "sleep"]
            /\ UNCHANGED <<admin_queue, roomLog>>
    /\ UNCHANGED <<configVars, hookVars, statsMsgVars,
                   serverVars, stop_stats_event, events_set,
                   stats_task, shutdownVars, bufferVars, nEntries, unflushed,
                   adminVars, cmdVars, histVars>>

\* An emit of the task returns: "while self.admin_queue:" pops and emits the
\* next entry, or the outer loop condition is evaluated again.
stats_task_drain(t) ==
    /\ taskPc[t] \in {"stats", "drain"}
    /\ IF admin_queue # <<>>
       THEN /\ roomLog' = Append(roomLog, Head(admin_queue).ts)
            /\ admin_queue' = Tail(admin_queue)
            /\ taskPc' = [taskPc EXCEPT ![t] = "drain"]
       ELSE /\ loop_or_exit(t)
            /\ UNCHANGED <<admin_queue, roomLog>>
    /\ UNCHANGED <<configVars, hookVars, statsMsgVars,
                   serverVars, stop_stats_event, events_set,
                   stats_task, shutdownVars, bufferVars, nEntries, unflushed,
                   adminVars, cmdVars, histVars>>

\* ------------------------------------------------------------- shutdown
StartedTasks == {t \in TaskIds : taskPc[t] # "none"}

\* InstrumentedAsyncServer.shutdown up to its await.
shutdown_call ==
    /\ shutdownPc = "idle"
    /\ nShutdowns < MaxShutdowns
    /\ nShutdowns' = nShutdowns + 1
    /\ IF stats_task # NoTask
       THEN /\ events_set' = events_set \cup {stop_stats_event}
            /\ shutdownPc' = "await"
            /\ shutdownTask' = stats_task
            /\ sleepingAtStop' = {t \in TaskIds : taskPc[t] = "sleep"}
       ELSE UNCHANGED <<events_set, shutdownPc, shutdownTask, sleepingAtStop>>
    /\ UNCHANGED <<configVars, hookVars, statsMsgVars,
                   serverVars, stop_stats_event, stats_task,
                   taskPc, bufferVars, queueVars, adminVars, cmdVars,
                   returnedFor>>

\* "await asyncio.gather(self.stats_task)" returns once the task it was
\* called with has finished.
shutdown_return ==
    /\ shutdownPc = "await"
    /\ taskPc[shutdownTask] = "done"
    /\ shutdownPc' = "idle"
    /\ shutdownTask' = NoTask
    /\ returnedFor' = StartedTasks
    /\ UNCHANGED <<configVars, hookVars, statsMsgVars,
                   serverVars, statsVars, nShutdowns, bufferVars,
                   queueVars, adminVars, cmdVars, sleepingAtStop>>

\* ------------------------------------------------------- admin commands
\* The registration without the read_only test.
admin_handlers_ignoring_read_only(md, ro) ==
    {"connect"} \cup
    (IF md = "development"
     THEN {"emit", "join", "leave", "_disconnect"} ELSE {})

\* instrument(): the events of the admin namespace that have a handler.
admin_handlers(md, ro) ==
    {"connect"} \cup
    (IF md = "development" /\ ~ro
     THEN {"emit", "join", "leave", "_disconnect"} ELSE {})

\* The names under which the Admin UI sends its four commands.
AdminCommands == {"emit", "join", "leave", "_disconnect"}
RoomFilters == {None} \cup NamedRooms \cup Sids
AppEvents == {"news"}
\* The argument of a command besides namespace and room filter: the event of
\* emit, the room of join and leave, the close flag of _disconnect.
CommandArgs(ev) ==
    CASE ev = "emit" -> AppEvents
      [] ev \in {"join", "leave"} -> NamedRooms
      [] OTHER -> {"close"}

RECURSIVE enter_each(_, _, _, _, _)
enter_each(md, m, sids, room, nsp) ==
    IF sids = <<>> THEN m
    ELSE enter_each(md, sio_enter_room(md, m, Head(sids), room, nsp),
                    Tail(sids), room, nsp)

RECURSIVE leave_each(_, _, _, _, _)
leave_each(md, m, sids, room, nsp) ==
    IF sids = <<>> THEN m
    ELSE leave_each(md, sio_leave_room(md, m, Head(sids), room, nsp),
                    Tail(sids), room, nsp)

RECURSIVE disconnect_each(_, _, _)
disconnect_each(m, sids, nsp) ==
    IF sids = <<>> THEN m
    ELSE disconnect_each(manager_disconnect(m, Head(sids), nsp), Tail(sids), nsp)

\* InstrumentedAsyncServer.admin_emit: sio.emit(event, data, to=room_filter,
\* namespace=namespace), the broadcast the server makes.
admin_emit(nsp, room_filter, event) ==
    /\ lastEmit' = [event |-> event, namespace |-> nsp, to |-> room_filter,
                    recipients |-> SeqRange(get_participants(rooms, nsp, room_filter))]
    /\ UNCHANGED <<sockets, rooms, ns_order, queueVars>>

\* InstrumentedAsyncServer.admin_enter_room
admin_enter_room(nsp, room, room_filter) ==
    /\ SetMgr(enter_each(mode, Mgr, get_participants(rooms, nsp, room_filter), room, nsp))
    /\ UNCHANGED <<sockets, lastEmit, roomLog>>

\* InstrumentedAsyncServer.admin_leave_room
admin_leave_room(nsp, room, room_filter) ==
    /\ SetMgr(leave_each(mode, Mgr, get_participants(rooms, nsp, room_filter), room, nsp))
    /\ UNCHANGED <<sockets, lastEmit, roomLog>>

\* InstrumentedAsyncServer.admin_disconnect: sio.disconnect(sid, namespace)
\* for every participant.
admin_disconnect(nsp, room_filter) ==
    LET sids == get_participants(rooms, nsp, room_filter)
    IN  /\ SetMgr(disconnect_each(Mgr, sids, nsp))
        /\ sockets' = [s \in AllSids |->
                IF s \in SeqRange(sids) THEN [sockets[s] EXCEPT !.state = "gone"]
                ELSE sockets[s]]
        /\ UNCHANGED <<lastEmit, roomLog>>

\* An admin connection sends a command packet.
admin_send(a, ev, nsp, arg, room_filter) ==
    /\ sockets[a].state = "connected"
    /\ sockets[a].nsp = admin_namespace
    /\ adminInbox = NoCmd
    /\ nCommands < MaxCommands
    /\ nCommands' = nCommands + 1
    /\ adminInbox' = [sid |-> a, event |-> ev, namespace |-> nsp, arg |-> arg,
                      filter |-> room_filter]
    /\ UNCHANGED <<configVars, hookVars, statsMsgVars,
                   serverVars, statsVars, shutdownVars,
                   bufferVars, queueVars, adminVars, lastEmit, histVars>>

\* The server dispatches the packet on the admin namespace: the handler
\* registered for its event runs, an event without a handler is dropped.
admin_command ==
    /\ adminInbox # NoCmd
    /\ adminInbox' = NoCmd
    /\ LET ev == adminInbox.event
           nsp == adminInbox.namespace
           arg == adminInbox.arg
           room_filter == adminInbox.filter
       IN  IF ev \in admin_handlers(mode, read_only)
           THEN CASE ev = "emit" -> admin_emit(nsp, room_filter, arg)
                  [] ev = "join" -> admin_enter_room(nsp, arg, room_filter)
                  [] ev = "leave" -> admin_leave_room(nsp, arg, room_filter)
                  [] OTHER -> admin_disconnect(nsp, room_filter)
           ELSE UNCHANGED <<sockets, rooms, ns_order, queueVars, lastEmit>>
    /\ UNCHANGED <<configVars, hookVars, statsMsgVars,
                   eio, statsVars, shutdownVars, bufferVars,
                   adminVars, nCommands, histVars>>

\* ------------------------------------------------------- specifications
\* Each specification runs the handlers of one part of the program, with its
\* inputs drawn from the sets given here.
OneEio == {e \in EioSids : e = 1}
OneSid == {SidNames[1]}
RootNamespace == {"/"}

\* The stats publisher, its shutdown and the discrete event queue: one
\* transport connection, the admin connections, one client moving in and out
\* of a room.
Init == InitWith({AuthList(<<GoodCreds, OtherCreds>>)}, {"development"}, {FALSE})

Next ==
    \/ \E e \in OneEio : _handle_eio_connect(e)
    \/ \E a \in AdminSids, e \in OneEio : admin_connect(a, e, GoodCreds)
    \/ \E s \in OneSid, e \in OneEio, nsp \in RootNamespace : ClientConnect(s, e, nsp)
    \/ \E s \in OneSid, room \in NamedRooms : EnterRoom(s, room)
    \/ \E s \in OneSid, room \in NamedRooms : LeaveRoom(s, room)
    \/ \E t \in TaskIds : stats_task_start(t)
    \/ \E t \in TaskIds : stats_task_publish(t)
    \/ \E t \in TaskIds : stats_task_drain(t)
    \/ shutdown_call
    \/ shutdown_return

Spec == Init /\ [][Next]_vars

\* The stats tasks and shutdown() under asyncio's scheduling: a coroutine
\* that can run is run, a sleep ends, an awaited task that has finished wakes
\* its awaiter.
NextShutdown ==
    \/ \E e \in OneEio : _handle_eio_connect(e)
    \/ \E a \in AdminSids, e \in OneEio : admin_connect(a, e, GoodCreds)
    \/ \E t \in TaskIds : stats_task_start(t)
    \/ \E t \in TaskIds : stats_task_publish(t)
    \/ \E t \in TaskIds : stats_task_drain(t)
    \/ shutdown_call
    \/ shutdown_return

FairSpec ==
    /\ Init
    /\ [][NextShutdown]_vars
    /\ \A t \in TaskIds :
          WF_vars(stats_task_start(t) \/ stats_task_publish(t) \/ stats_task_drain(t))
    /\ WF_vars(shutdown_return)

\* The transport interceptors filling the EventBuffer while the stats tasks
\* flush it.
NextBuffer ==
    \/ \E e \in EioSids : _handle_eio_connect(e)
    \/ \E e \in EioSids : _handle_eio_disconnect(e)
    \/ \E len \in Lens : _eio_http_response(len)
    \/ \E e \in EioSids, len \in Lens : _eio_handle_post_request(e, len)
    \/ \E e \in EioSids, len \in Lens : _send(e, len)
    \/ \E e \in EioSids, len \in Lens : _wait(e, len)
    \/ \E a \in AdminSids, e \in EioSids : admin_connect(a, e, GoodCreds)
    \/ \E t \in TaskIds : stats_task_start(t)
    \/ \E t \in TaskIds : stats_task_publish(t)
    \/ \E t \in TaskIds : stats_task_drain(t)

SpecBuffer == Init /\ [][NextBuffer]_vars

\* The admin handshake: every authenticator, mode and read_only flag, the
\* admin connection attempts with every credential, and the config tasks.
InitAdmin == InitWith(AuthValues, {"development", "production"}, BOOLEAN)

NextAdmin ==
    \/ \E e \in OneEio : _handle_eio_connect(e)
    \/ \E s \in OneSid, e \in OneEio, nsp \in RootNamespace : ClientConnect(s, e, nsp)
    \/ \E a \in AdminSids, e \in OneEio, c \in ClientAuths : admin_connect(a, e, c)
    \/ \E a \in AdminSids : config_emit_config(a)
    \/ \E a \in AdminSids : config_emit_all_sockets(a)
    \/ \E a \in AdminSids : config_return(a)

SpecAdmin == InitAdmin /\ [][NextAdmin]_vars

\* The admin commands: clients of two namespaces, the application putting
\* them into a room, an admin connection sending emit, join, leave and
\* _disconnect.
InitCommands ==
    InitWith({AuthList(<<GoodCreds, OtherCreds>>)}, {"development", "production"}, BOOLEAN)

NextCommands ==
    \/ \E e \in OneEio : _handle_eio_connect(e)
    \/ \E s \in Sids, e \in OneEio, nsp \in Namespaces : ClientConnect(s, e, nsp)
    \/ \E s \in Sids, room \in NamedRooms : EnterRoom(s, room)
    \/ \E a \in {AdminNames[1]}, e \in OneEio : admin_connect(a, e, GoodCreds)
    \/ \E a \in {AdminNames[1]}, ev \in AdminCommands, nsp \in Namespaces,
          f \in RoomFilters :
            \E arg \in CommandArgs(ev) : admin_send(a, ev, nsp, arg, f)
    \/ admin_command

SpecCommands == InitCommands /\ [][NextCommands]_vars

\* ---------------------------------------------------------------- claims
RunningTasks == {t \in TaskIds : taskPc[t] \in {"start", "sleep", "stats", "drain"}}

\* Task t publishes a server_stats message in this step.
PublishesStats(t) == taskPc[t] = "sleep" /\ taskPc'[t] = "stats"

\* C1: at every reachable state at most one stats task is running, whatever
\* the sequence of transport connections and successful admin connections.
C1_AtMostOneStatsTask == Cardinality(RunningTasks) <= 1

\* C2: once shutdown() has set the stop signal and returned from awaiting
\* the stats task, no stats task started before that return publishes a
\* server_stats message.
C2_NoStatsAfterShutdown ==
    [][\A t \in returnedFor : ~PublishesStats(t)]_vars

\* C3: a stats task that is sleeping when the stop signal is set does not
\* publish a server_stats message when that sleep ends.
C3_StopInterruptsSleep ==
    [][\A t \in sleepingAtStop : ~PublishesStats(t)]_vars

\* C4: every invocation of shutdown() that awaits the stats task eventually
\* returns, under fair scheduling of the tasks.
C4_ShutdownReturns == (shutdownPc = "await") ~> (shutdownPc = "idle")

\* C5: for every counter, what the server_stats messages reported so far plus
\* what is buffered equals what was pushed so far.
C5_NoPushLostOrDoubled ==
    \A c \in Counters : flushedTotal[c] + event_buffer[c] = pushedTotal[c]

\* Bytes were reported, more bytes are buffered, and two stats tasks run.
C5_Witness ==
    /\ flushedTotal["bytesOut"] > 0
    /\ event_buffer["bytesOut"] > 0
    /\ Cardinality(RunningTasks) >= 2

\* What the claim requires of a fixed-credentials map (equality) and of a
\* fixed allow-list (membership).
CredentialsMatch(au, client_auth) ==
    IF au.kind = "dict" THEN client_auth = au.val
    ELSE client_auth \in SeqRange(au.val)

AdminAttempts == {a \in AdminSids : sockets[a].state \in {"connected", "refused"}}
AdminAccepted == {a \in AdminSids : sockets[a].state = "connected"}

\* C8: with a fixed-credentials map or a fixed allow-list, an admin
\* connection is accepted if and only if its credentials equal the map,
\* respectively are in the list; a refused connection has no config task and
\* started no stats task.
C8_FixedCredentialsDecide ==
    auth.kind \in {"dict", "list"} =>
        /\ \A a \in AdminAttempts :
              /\ (a \in AdminAccepted) <=> CredentialsMatch(auth, sockets[a].auth)
              /\ a \notin AdminAccepted => configPc[a] = "none"
        /\ Cardinality(StartedTasks) =
              Cardinality(AdminAccepted)
              + (IF \E e \in EioSids : eio[e] # "new" THEN 1 ELSE 0)

ControlFeatures ==
    {"EMIT", "JOIN", "LEAVE", "DISCONNECT", "MJOIN", "MLEAVE", "MDISCONNECT"}

ConfigMessages(a) ==
    {i \in 1..Len(configLog[a]) : configLog[a][i].event = "config"}
AllSocketsMessages(a) ==
    {i \in 1..Len(configLog[a]) : configLog[a][i].event = "all_sockets"}

\* What the command dispatched in this step must have done to its namespace.
CommandPerformed ==
    LET ev == adminInbox.event
        nsp == adminInbox.namespace
        arg == adminInbox.arg
        f == adminInbox.filter
        targets == SeqRange(get_participants(rooms, nsp, f))
    IN  /\ CASE ev = "emit" ->
                 lastEmit' = [event |-> arg, namespace |-> nsp, to |-> f,
                              recipients |-> targets]
            [] ev = "join" -> \A s \in targets : s \in SeqRange(rooms'[nsp][arg])
            [] ev = "leave" -> \A s \in targets : s \notin SeqRange(rooms'[nsp][arg])
            [] OTHER -> \A s \in targets :
                 /\ sockets'[s].state = "gone"
                 /\ \A r \in RoomKeys : s \notin SeqRange(rooms'[nsp][r])
        /\ \A n \in AllNamespaces \ {nsp} : rooms'[n] = rooms[n]

\* C9: in read-only mode an emit, join, leave or _disconnect command of an
\* admin connection changes no regular namespace (no broadcast, no
\* membership change, no disconnection); not read-only and in development
\* mode it performs its action on the targeted namespace and leaves the
\* other namespaces alone.
C9_AdminCommands ==
    [][(adminInbox # NoCmd /\ adminInbox' = NoCmd) =>
          /\ read_only => UNCHANGED <<rooms, ns_order, sockets, lastEmit, admin_queue>>
          /\ (~read_only /\ mode = "development") => CommandPerformed]_vars

\* An admin _disconnect command has disconnected a client, on a server that
\* is not read-only.
C9_Witness ==
    /\ ~read_only
    /\ mode = "development"
    /\ \E s \in Sids : sockets[s].state = "gone"

\* C10: the config task of an accepted admin connection sends exactly one
\* config message, to that connection, listing AGGREGATED_EVENTS always, the
\* control features iff the server is not read-only and ALL_EVENTS iff the mode
\* is development; an all_sockets message follows it iff the mode is
\* development.  Nothing is sent for a connection that was not accepted.
C10_ConfigMessage ==
    \A a \in AdminSids :
        /\ configPc[a] \in {"none", "sleep"} => configLog[a] = <<>>
        /\ a \notin AdminAccepted => configPc[a] = "none"
        /\ a \in AdminAccepted => configPc[a] # "none"
        /\ configPc[a] \in {"config", "all_sockets", "done"} =>
              /\ ConfigMessages(a) = {1}
              /\ configLog[a][1].to = a
              /\ LET features == SeqRange(configLog[a][1].data)
                 IN  /\ "AGGREGATED_EVENTS" \in features
                     /\ IF read_only THEN features \cap ControlFeatures = {}
                        ELSE ControlFeatures \subseteq features
                     /\ ("ALL_EVENTS" \in features) <=> (mode = "development")
        /\ configPc[a] = "config" => AllSocketsMessages(a) = {}
        /\ configPc[a] \in {"all_sockets", "done"} =>
              AllSocketsMessages(a) = (IF mode = "development" THEN {2} ELSE {})

\* A config task has finished in development mode on a read-only server
\* after sending config and all_sockets.
C10_Witness ==
    \E a \in AdminSids :
        /\ configPc[a] = "done"
        /\ mode = "development"
        /\ read_only
        /\ Len(configLog[a]) = 2

\* C6: room_joined / room_left entries are published in exactly the order in
\* which they were appended to the queue (the timestamps 1, 2, 3, ... of the
\* appends), for any number of stats tasks draining the queue.
C6_RoomEventsInOrder == roomLog = [i \in 1..Len(roomLog) |-> i]

\* Two stats tasks are both suspended in an emit of the drain loop after two
\* entries were published.
C6_Witness ==
    /\ Len(roomLog) >= 2
    /\ Cardinality({t \in TaskIds : taskPc[t] = "drain"}) >= 2

\* C7: no entry is published before a server_stats message has been
\* published after the entry was queued: a published entry is never one
\* queued since the last server_stats emit.
C7_EntryAfterNextFlush == SeqRange(roomLog) \cap unflushed = {}

\* C11: in development mode the all_sockets message of a config task is
\* addressed to the admin connection the task was started for, the recipient
\* of its config message.
C11_AllSocketsToSameAdmin ==
    \A a \in AdminSids : \A i \in AllSocketsMessages(a) :
        configLog[a][i].to = a

\* The four single-target control features, and the commands they announce.
SingleTargetFeatures == {"EMIT", "JOIN", "LEAVE", "DISCONNECT"}

\* C20: for every mode and read_only flag a config message advertises the
\* control features iff the admin command handlers are registered.
C20_AdvertisedIffRegistered ==
    \A a \in AdminSids : \A i \in ConfigMessages(a) :
        (SingleTargetFeatures \subseteq SeqRange(configLog[a][i].data))
            <=> (AdminCommands \subseteq admin_handlers(mode, read_only))

\* ------------------------------------------- namespaces of server_stats
\* The application registers a handler on a namespace (sio.on(...)): the
\* namespace becomes a key of sio.handlers.
register_handler(nsp) ==
    /\ nsp \notin handlers
    /\ handlers' = handlers \cup {nsp}
    /\ UNCHANGED <<configVars, serverVars, statsVars, shutdownVars,
                   bufferVars, queueVars, adminVars, cmdVars, histVars,
                   statsMsgVars, _timestamps, dispatch, emitCall, ping,
                   notified, lateConnected, chained, roomCall, nDispatches,
                   nEmits, nPings>>

\* The stats tasks while clients connect to the namespaces and the
\* application registers handlers.
NextStats ==
    \/ \E e \in OneEio : _handle_eio_connect(e)
    \/ \E a \in AdminSids, e \in OneEio : admin_connect(a, e, GoodCreds)
    \/ \E s \in Sids, e \in OneEio, nsp \in Namespaces : ClientConnect(s, e, nsp)
    \/ \E nsp \in Namespaces : register_handler(nsp)
    \/ \E t \in TaskIds : stats_task_start(t)
    \/ \E t \in TaskIds : stats_task_publish(t)
    \/ \E t \in TaskIds : stats_task_drain(t)

SpecStats == Init /\ [][NextStats]_vars

\* What the claim requires of the 'namespaces' field: every namespace with
\* registered handlers, sorted by name, with its number of connections.
NamespaceCounts ==
    LET names == SortedSeq(handlers)
    IN  [i \in 1..Len(names) |->
            [name |-> names[i], socketsCount |-> Len(rooms[names[i]][None])]]

\* C19: every server_stats message lists, sorted by name, every namespace
\* that has registered handlers when the message is published, each with
\* the number of connections it has at that time.
C19_StatsCoverNamespaces ==
    [][\A t \in TaskIds :
          PublishesStats(t) => server_stats_namespaces(t) = NamespaceCounts]_vars

\* ------------------------------------- room hooks, the mutation may raise
\* A call of a room hook whose underlying mutation returns or raises: the
\* manager state it leaves, whether it queued an entry, whether the
\* exception of the mutation propagated.  A mutation that raises has changed
\* no membership.
RoomCallOutcome(m, queued, raised) == [m |-> m, queued |-> queued, raised |-> raised]

\* _basic_enter_room: the mutation first, the append after it has returned.
_basic_enter_room_call(m, sid, nsp, room, raises) ==
    IF raises THEN RoomCallOutcome(m, FALSE, TRUE)
    ELSE RoomCallOutcome(_basic_enter_room(m, sid, nsp, room), RoomTruthy(room), FALSE)

\* _basic_leave_room: the append first, the mutation in the return statement.
_basic_leave_room_call(m, sid, nsp, room, raises) ==
    LET queued == IF RoomTruthy(room)
                  THEN admin_queue_append(m, "room_left", nsp, room, sid)
                  ELSE m
    IN  IF raises THEN RoomCallOutcome(queued, RoomTruthy(room), TRUE)
        ELSE RoomCallOutcome(orig_basic_leave_room(queued, sid, nsp, room),
                             RoomTruthy(room), FALSE)

othersOfRoomCall ==
    <<configVars, eio, sockets, statsVars, shutdownVars, bufferVars, roomLog,
      adminVars, cmdVars, histVars, statsMsgVars, _timestamps, handlers,
      dispatch, emitCall, ping, notified, lateConnected, chained,
      nDispatches, nEmits, nPings>>

\* The manager calls its basic_enter_room, replaced by the hook, for a
\* connected client.
room_hook_enter(s, room, raises) ==
    /\ mode = "development"
    /\ sockets[s].state = "connected"
    /\ LET out == _basic_enter_room_call(Mgr, s, sockets[s].nsp, room, raises)
       IN  /\ SetMgr(out.m)
           /\ roomCall' = [op |-> "enter", raised |-> out.raised, queued |-> out.queued]
    /\ UNCHANGED othersOfRoomCall

\* The manager calls its basic_leave_room, replaced by the hook.
room_hook_leave(s, room, raises) ==
    /\ mode = "development"
    /\ sockets[s].state = "connected"
    /\ LET out == _basic_leave_room_call(Mgr, s, sockets[s].nsp, room, raises)
       IN  /\ SetMgr(out.m)
           /\ roomCall' = [op |-> "leave", raised |-> out.raised, queued |-> out.queued]
    /\ UNCHANGED othersOfRoomCall

\* Clients entering and leaving rooms, the mutations of the manager
\* returning or raising, a stats task draining the queue.
NextRooms ==
    \/ \E e \in OneEio : _handle_eio_connect(e)
    \/ \E s \in OneSid, e \in OneEio, nsp \in Namespaces : ClientConnect(s, e, nsp)
    \/ \E s \in OneSid, room \in RoomArgs, raises \in BOOLEAN :
          room_hook_enter(s, room, raises)
    \/ \E s \in OneSid, room \in RoomArgs, raises \in BOOLEAN :
          room_hook_leave(s, room, raises)
    \/ \E t \in TaskIds : stats_task_start(t)
    \/ \E t \in TaskIds : stats_task_publish(t)
    \/ \E t \in TaskIds : stats_task_drain(t)

SpecRooms == Init /\ [][NextRooms]_vars

\* C17: a room hook whose underlying mutation raised has queued no
\* room_joined / room_left entry.
C17_NoEntryWhenMutationRaises == roomCall.raised => ~roomCall.queued

\* ------------------------------------------------- the emit interceptor
\* instrument(): sio._trigger_event, manager.emit and AsyncSocket._send_ping
\* are replaced in development mode only.
hooked_in_any_mode(md) == TRUE
lifecycle_hooked(md) == md = "development"
emit_hooked(md) == md = "development"
ping_hooked(md) == md = "development"

\* The skip_sid argument of an emit: None, one sid, or a list of sids.
SkipScalar(x) == [list |-> FALSE, sid |-> x, sids |-> <<>>]
SkipList(l) == [list |-> TRUE, sid |-> None, sids |-> l]
SkipArgs ==
    {SkipScalar(None)} \cup {SkipScalar(s) : s \in Sids}
    \cup {SkipList(<<s>>) : s \in Sids}

\* "if not isinstance(skip_sid, list): skip_sid = [skip_sid]"
skip_sid_list(skip) == IF skip.list THEN skip.sids ELSE <<skip.sid>>

\* The original manager.emit: the connections the broadcast is delivered to.
orig_emit_recipients(rms, nsp, room, skip) ==
    SeqRange(get_participants(rms, nsp, room)) \ SeqRange(skip_sid_list(skip))

\* "if namespace != self.admin_namespace:" with the test left out.
emit_notifies_any_namespace(nsp) == TRUE

\* _emit: "if namespace != self.admin_namespace:"
emit_notifies(nsp) == nsp # admin_namespace

othersOfEmit ==
    <<configVars, serverVars, statsVars, shutdownVars, bufferVars, queueVars,
      adminVars, cmdVars, histVars, statsMsgVars, _timestamps, handlers,
      dispatch, ping, lateConnected, roomCall, nDispatches, nPings>>

\* sio.emit(event, ..., room=room, skip_sid=skip, namespace=nsp) reaches
\* manager.emit: in development mode that is _emit, which calls the original
\* emit and is suspended in it.
emit_call(nsp, room, skip) ==
    /\ emitCall.pc \in {"idle", "done"}
    /\ nEmits < MaxEmits
    /\ nEmits' = nEmits + 1
    /\ emitCall' =
          [pc |-> IF emit_hooked(mode) THEN "broadcast" ELSE "done",
           namespace |-> nsp, room |-> room, skip_sid |-> skip,
           delivered |-> orig_emit_recipients(rooms, nsp, room, skip),
           pending |-> <<>>, sent |-> <<>>]
    /\ UNCHANGED <<othersOfEmit, notified, chained>>

\* The original emit returns: the participants are read for the loop over
\* the recipients.
emit_broadcast_returns ==
    /\ emitCall.pc = "broadcast"
    /\ emitCall' =
          IF emit_notifies(emitCall.namespace)
          THEN [emitCall EXCEPT
                   !.pc = "loop",
                   !.pending = get_participants(rooms, emitCall.namespace,
                                                emitCall.room)]
          ELSE [emitCall EXCEPT !.pc = "done"]
    /\ UNCHANGED <<othersOfEmit, notified, chained, nEmits>>

\* One iteration of the loop: emit('event_sent', ...) on the admin
\* namespace for a participant that is not in skip_sid.  That emit reaches
\* _emit again, with the admin namespace.
emit_notify ==
    /\ emitCall.pc = "loop"
    /\ IF emitCall.pending = <<>>
       THEN /\ emitCall' = [emitCall EXCEPT !.pc = "done"]
            /\ UNCHANGED <<notified, chained>>
       ELSE LET sid == Head(emitCall.pending)
            IN  IF sid \notin SeqRange(skip_sid_list(emitCall.skip_sid))
                THEN /\ emitCall' = [emitCall EXCEPT !.pending = Tail(@),
                                                      !.sent = Append(@, sid)]
                     /\ notified' = notified \cup {<<"event_sent", sid>>}
                     /\ chained' = chained +
                           (IF emit_notifies(admin_namespace) THEN 1 ELSE 0)
                ELSE /\ emitCall' = [emitCall EXCEPT !.pending = Tail(@)]
                     /\ UNCHANGED <<notified, chained>>
    /\ UNCHANGED <<othersOfEmit, nEmits>>

\* Emits on a regular namespace and on the admin namespace while clients and
\* admin connections come and clients enter a room.
InitEmit ==
    InitWith({AuthList(<<GoodCreds, OtherCreds>>)}, {"development", "production"}, {FALSE})

NextEmit ==
    \/ \E e \in OneEio : _handle_eio_connect(e)
    \/ \E s \in Sids, e \in OneEio, nsp \in RootNamespace : ClientConnect(s, e, nsp)
    \/ \E a \in AdminSids, e \in OneEio : admin_connect(a, e, GoodCreds)
    \/ \E s \in Sids, room \in NamedRooms : EnterRoom(s, room)
    \/ \E nsp \in RootNamespace \cup {admin_namespace}, room \in RoomKeys,
          skip \in SkipArgs : emit_call(nsp, room, skip)
    \/ emit_broadcast_returns
    \/ emit_notify

SpecEmit == InitEmit /\ [][NextEmit]_vars

\* C15: an emit on the admin namespace produces no event_sent notification,
\* the publication of a notification causes no further notification, and an
\* emit publishes at most one notification per connection.
C15_AdminEmitNotNotified ==
    /\ chained = 0
    /\ emitCall.namespace = admin_namespace => emitCall.sent = <<>>
    /\ Len(emitCall.sent) <= Cardinality(AllSids)

\* In development mode an emit on the admin namespace that was delivered to
\* an admin connection has gone through the interceptor and finished.
C15_Witness ==
    /\ mode = "development"
    /\ emitCall.pc = "done"
    /\ emitCall.namespace = admin_namespace
    /\ emitCall.delivered # {}

\* C16: the connections an intercepted emit on a regular namespace has
\* published event_sent for are exactly those the broadcast was delivered
\* to, one notification each.
C16_NotifiedAreRecipients ==
    (mode = "development" /\ emitCall.pc = "done"
     /\ emitCall.namespace # admin_namespace) =>
        /\ SeqRange(emitCall.sent) = emitCall.delivered
        /\ Len(emitCall.sent) = Cardinality(emitCall.delivered)

\* -------------------------------------------- the lifecycle interceptor
\* The events an application handles besides connect and disconnect.
ClientEvents == {"message"}
\* What the original dispatch does with an event: its handler returns, its
\* connect handler rejects the connection, or the handler raises.
Outcomes(event) ==
    IF event = "connect" THEN {"ok", "reject", "raise"} ELSE {"ok", "raise"}

\* A connection the manager holds: being connected, connected, or being
\* disconnected.
Established(s) == sockets[s].state \in {"connecting", "connected", "disconnecting"}

\* manager.sid_from_eio_sid(eio_sid, namespace): the connection of a
\* transport in a namespace, None without one.
sid_from_eio_sid(e, nsp) ==
    LET found == {s \in SeqRange(rooms[nsp][None]) : sockets[s].eio = e}
    IN  IF found = {} THEN None ELSE CHOOSE s \in found : TRUE

\* An interceptor publishes a notification about connection sid on the admin
\* namespace.
publish(event, sid) ==
    /\ notified' = notified \cup {<<event, sid>>}
    /\ lateConnected' =
          IF event = "socket_connected" /\ <<"socket_disconnected", sid>> \in notified
          THEN lateConnected \cup {sid}
          ELSE lateConnected

\* The server calls self._trigger_event(event, namespace, sid, ...).
Dispatching(event, nsp, sid, published) ==
    [pc |-> "forward", event |-> event, namespace |-> nsp, sid |-> sid,
     published |-> published, calls |-> 0, forwarded |-> <<>>, orig |-> None,
     result |-> None]

dispatch_free ==
    /\ dispatch.pc \in {"idle", "done"}
    /\ nDispatches < MaxDispatches
    /\ nDispatches' = nDispatches + 1

othersOfDispatch ==
    <<configVars, eio, statsVars, shutdownVars, bufferVars, roomLog,
      adminVars, cmdVars, histVars, statsMsgVars, handlers, emitCall, ping,
      chained, roomCall, nEmits, nPings>>

\* A client connects to a regular namespace: the manager registers the
\* connection, then the connect event is dispatched.  _trigger_event,
\* event == 'connect', up to the return of its emit.
connect_dispatch(s, e, nsp) ==
    /\ sockets[s].state = "new"
    /\ eio[e] = "open"
    /\ sid_from_eio_sid(e, nsp) = None
    /\ dispatch_free
    /\ sockets' = [sockets EXCEPT ![s] = Socket("connecting", nsp, e, PyNone)]
    /\ SetMgr(orig_basic_enter_room(Mgr, s, nsp, None))
    /\ IF lifecycle_hooked(mode)
       THEN /\ _timestamps' = _timestamps \cup {s}
            /\ publish("socket_connected", s)
            /\ dispatch' = Dispatching("connect", nsp, s, TRUE)
       ELSE /\ dispatch' = Dispatching("connect", nsp, s, FALSE)
            /\ UNCHANGED <<_timestamps, notified, lateConnected>>
    /\ UNCHANGED othersOfDispatch

\* A connection leaves its namespace: the disconnect event is dispatched.
\* _trigger_event, event == 'disconnect': "del _timestamps[sid]" raises
\* KeyError for a sid that is not in the table.
disconnect_dispatch(s) ==
    /\ sockets[s].state = "connected"
    /\ sockets[s].nsp # admin_namespace
    /\ dispatch_free
    /\ sockets' = [sockets EXCEPT ![s].state = "disconnecting"]
    /\ IF lifecycle_hooked(mode)
       THEN IF s \in _timestamps
            THEN /\ _timestamps' = _timestamps \ {s}
                 /\ publish("socket_disconnected", s)
                 /\ dispatch' = Dispatching("disconnect", sockets[s].nsp, s, TRUE)
            ELSE /\ dispatch' =
                       [Dispatching("disconnect", sockets[s].nsp, s, FALSE)
                            EXCEPT !.pc = "done", !.result = "KeyError"]
                 /\ UNCHANGED <<_timestamps, notified, lateConnected>>
       ELSE /\ dispatch' = Dispatching("disconnect", sockets[s].nsp, s, FALSE)
            /\ UNCHANGED <<_timestamps, notified, lateConnected>>
    /\ UNCHANGED <<othersOfDispatch, rooms, ns_order, admin_queue, nEntries,
                   unflushed>>

\* A connected client sends an event.  _trigger_event, the else branch.
event_dispatch(s, ev) ==
    /\ sockets[s].state = "connected"
    /\ sockets[s].nsp # admin_namespace
    /\ dispatch_free
    /\ IF lifecycle_hooked(mode)
       THEN /\ publish("event_received", s)
            /\ dispatch' = Dispatching(ev, sockets[s].nsp, s, TRUE)
       ELSE /\ dispatch' = Dispatching(ev, sockets[s].nsp, s, FALSE)
            /\ UNCHANGED <<notified, lateConnected>>
    /\ UNCHANGED <<othersOfDispatch, sockets, rooms, ns_order, admin_queue,
                   nEntries, unflushed, _timestamps>>

\* "return await self.sio.__trigger_event(event, namespace, *args)": the
\* original dispatch runs with its outcome; the server then completes a
\* connect (a rejected connection is removed, no disconnect is dispatched
\* for it) or a disconnect (the connection is removed).
dispatch_forward(outcome) ==
    /\ dispatch.pc = "forward"
    /\ outcome \in Outcomes(dispatch.event)
    /\ dispatch' = [dispatch EXCEPT
            !.pc = "done", !.calls = @ + 1,
            !.forwarded = <<dispatch.event, dispatch.namespace, dispatch.sid>>,
            !.orig = outcome, !.result = outcome]
    /\ LET s == dispatch.sid
           removed == manager_disconnect(Mgr, s, dispatch.namespace)
       IN  CASE dispatch.event = "connect" /\ outcome = "ok" ->
                  /\ sockets' = [sockets EXCEPT ![s].state = "connected"]
                  /\ UNCHANGED <<rooms, ns_order, admin_queue, nEntries, unflushed>>
             [] dispatch.event = "connect" /\ outcome # "ok" ->
                  /\ sockets' = [sockets EXCEPT ![s].state = "refused"]
                  /\ SetMgr(removed)
             [] dispatch.event = "disconnect" /\ outcome = "ok" ->
                  /\ sockets' = [sockets EXCEPT ![s].state = "gone"]
                  /\ SetMgr(removed)
             [] OTHER ->
                  UNCHANGED <<sockets, rooms, ns_order, admin_queue, nEntries,
                              unflushed>>
    /\ UNCHANGED <<othersOfDispatch, _timestamps, notified, lateConnected,
                   nDispatches>>

\* ---------------------------------------------------- the keep-alive ping
othersOfPing ==
    <<configVars, serverVars, statsVars, shutdownVars, bufferVars, queueVars,
      adminVars, cmdVars, histVars, statsMsgVars, _timestamps, handlers,
      dispatch, emitCall, chained, roomCall, nDispatches, nEmits>>

\* The transport sends a ping: in development mode _eio_send_ping starts its
\* loop over manager.get_namespaces().
ping_start(e) ==
    /\ eio[e] = "open"
    /\ ping[e].pc = "idle"
    /\ nPings < MaxPings
    /\ nPings' = nPings + 1
    /\ ping' = [ping EXCEPT ![e] =
            IF ping_hooked(mode)
            THEN [pc |-> "loop", rest |-> get_namespaces(ns_order)]
            ELSE NoPing]
    /\ UNCHANGED <<othersOfPing, notified, lateConnected>>

\* One iteration of the loop of _eio_send_ping: socket_connected for the
\* connection the transport has in the namespace; after the loop the
\* original _send_ping.
ping_step(e) ==
    /\ ping[e].pc = "loop"
    /\ IF ping[e].rest = <<>>
       THEN /\ ping' = [ping EXCEPT ![e] = NoPing]
            /\ UNCHANGED <<notified, lateConnected>>
       ELSE LET sid == sid_from_eio_sid(e, Head(ping[e].rest))
            IN  /\ ping' = [ping EXCEPT ![e].rest = Tail(@)]
                /\ IF sid # None
                   THEN publish("socket_connected", sid)
                   ELSE UNCHANGED <<notified, lateConnected>>
    /\ UNCHANGED <<othersOfPing, nPings>>

\* The server was instrumented while the connections of pre were connected
\* to namespace "/" over transport 1.
InitServerWith(pre) ==
    /\ eio = [e \in EioSids |-> IF e = 1 /\ pre # {} THEN "open" ELSE "new"]
    /\ sockets = [s \in AllSids |->
            IF s \in pre THEN Socket("connected", "/", 1, PyNone) ELSE NoSocket]
    /\ rooms = [n \in AllNamespaces |-> [r \in RoomKeys |->
            IF n = "/" /\ r = None /\ pre # {} THEN <<CHOOSE s \in pre : TRUE>>
            ELSE <<>>]]
    /\ ns_order = IF pre = {} THEN <<>> ELSE <<"/">>

\* Connections made, used and closed, with keep-alive pings, on a server
\* instrumented before or after its first connection.
InitLifecycle ==
    /\ InitConfig({AuthList(<<GoodCreds, OtherCreds>>)}, {"development"}, {FALSE})
    /\ \E pre \in {{}, OneSid} : InitServerWith(pre)
    /\ InitInstrumentation

NextLifecycle ==
    \/ \E e \in OneEio : _handle_eio_connect(e)
    \/ \E s \in Sids, e \in OneEio, nsp \in Namespaces : connect_dispatch(s, e, nsp)
    \/ \E s \in Sids : disconnect_dispatch(s)
    \/ \E s \in Sids, ev \in ClientEvents : event_dispatch(s, ev)
    \/ \E outcome \in {"ok", "reject", "raise"} : dispatch_forward(outcome)
    \/ \E e \in OneEio : ping_start(e)
    \/ \E e \in OneEio : ping_step(e)

SpecLifecycle == InitLifecycle /\ [][NextLifecycle]_vars

\* C13: every connection in the timestamp side-table is one the manager
\* holds.
C13_TimestampsOfConnections == \A s \in _timestamps : Established(s)

\* C14: a dispatch that went through the interceptor has invoked the
\* original dispatch exactly once, with the same event, namespace and
\* connection, after the notification was published, and its outcome is
\* that of the original dispatch.
C14_DispatchForwardedOnce ==
    (lifecycle_hooked(mode) /\ dispatch.pc = "done") =>
        /\ dispatch.calls = 1
        /\ dispatch.forwarded = <<dispatch.event, dispatch.namespace, dispatch.sid>>
        /\ dispatch.published
        /\ dispatch.result = dispatch.orig

\* C18: socket_connected is never published for a connection after its
\* socket_disconnected.
C18_NoConnectedAfterDisconnected == lateConnected = {}


\* ------------------------------------------------- the restricted mode
\* The admin connection of the restricted-mode runs.
OneAdmin == {AdminNames[1]}

\* Every operation the instrumentation can observe, on a server instrumented
\* in production mode, with and without read_only.  The steps inside _emit
\* and _eio_send_ping and the all_sockets emit of config() belong to
\* development mode and cannot be taken here.
InitRestricted ==
    InitWith({AuthList(<<GoodCreds, OtherCreds>>)}, {"production"}, BOOLEAN)

NextRestricted ==
    \/ \E e \in OneEio : _handle_eio_connect(e)
    \/ \E s \in OneSid, e \in OneEio, nsp \in RootNamespace : connect_dispatch(s, e, nsp)
    \/ \E s \in OneSid : disconnect_dispatch(s)
    \/ \E s \in OneSid, ev \in ClientEvents : event_dispatch(s, ev)
    \/ \E outcome \in {"ok", "reject", "raise"} : dispatch_forward(outcome)
    \/ \E s \in OneSid, room \in NamedRooms : EnterRoom(s, room)
    \/ \E s \in OneSid, room \in NamedRooms : LeaveRoom(s, room)
    \/ \E nsp \in RootNamespace, room \in RoomKeys : emit_call(nsp, room, SkipScalar(None))
    \/ \E e \in OneEio : ping_start(e)
    \/ \E a \in OneAdmin, e \in OneEio : admin_connect(a, e, GoodCreds)
    \/ \E a \in AdminSids : config_emit_config(a)
    \/ \E a \in AdminSids : config_emit_all_sockets(a)
    \/ \E t \in TaskIds : stats_task_start(t)
    \/ \E t \in TaskIds : stats_task_publish(t)
    \/ \E t \in TaskIds : stats_task_drain(t)

SpecRestricted == InitRestricted /\ [][NextRestricted]_vars

\* The messages config() has published to admin connection a.
PublishedToAdmin(a) == {configLog[a][i].event : i \in 1..Len(configLog[a])}

\* C12: outside development mode the instrumentation publishes nothing but
\* config and server_stats on the admin namespace: no socket_connected,
\* socket_disconnected, event_received or event_sent notification, no
\* room_joined or room_left entry is queued or published, and no all_sockets
\* message is sent.
C12_RestrictedModeOnlyAggregates ==
    mode # "development" =>
        /\ notified = {}
        /\ admin_queue = <<>>
        /\ roomLog = <<>>
        /\ nEntries = 0
        /\ \A a \in AdminSids : PublishedToAdmin(a) \subseteq {"config"}

\* In production mode a client has connected and joined a room, an emit and
\* a keep-alive ping have been made, an admin connection has its config and
\* a server_stats message is being published.
C12_Witness ==
    /\ mode = "production"
    /\ dispatch.pc = "done" /\ dispatch.event = "connect" /\ dispatch.result = "ok"
    /\ \E s \in Sids, room \in NamedRooms : s \in SeqRange(rooms["/"][room])
    /\ nEmits > 0
    /\ nPings > 0
    /\ \E a \in AdminSids : configPc[a] = "done"
    /\ \E t \in TaskIds : taskPc[t] = "stats"

====
